---- MODULE Spec2Model ----
(***************************************************************************)
(* A model of MLService (backend/modeling/services.py): preprocessing,     *)
(* problem-type detection, model suggestion, the advisory fallback,        *)
(* training, feature importance, the model artifact store and the          *)
(* hyperparameter search.                                                  *)
(***************************************************************************)
EXTENDS Integers, Sequences, FiniteSets, TLC

VARIABLES
    df,     \* the caller's dataset of a preprocess_data call
    pcall,  \* the arguments of the preprocess_data call
    pret,   \* what preprocess_data returned or raised
    call,   \* the last call on the service and its arguments
    ret,    \* what that call returned or raised
    fs,     \* the file system: its directories and files
    saved,  \* per path, the model of the last save_model that returned
    study   \* the optuna study of a running optimize_hyperparameters

vars == <<df, pcall, pret, call, ret, fs, saved, study>>
preVars == <<df, pcall, pret>>
storeVars == <<fs, saved>>

(***************************************************************************)
(* Bounds of the preprocessing model.                                      *)
(***************************************************************************)
NRows == 2

(***************************************************************************)
(* Cell values of a pandas column.  A number is the rational n/d, a scaled *)
(* value ("z") is the real n/sqrt(d) that StandardScaler produces.         *)
(***************************************************************************)
Num(n, d) == [k |-> "num", n |-> n, d |-> d, s |-> ""]
NaN == [k |-> "nan", n |-> 0, d |-> 1, s |-> ""]
PosInf == [k |-> "inf", n |-> 1, d |-> 1, s |-> ""]
Str(s) == [k |-> "str", n |-> 0, d |-> 1, s |-> s]
Zscore(n, d) == [k |-> "z", n |-> n, d |-> d, s |-> ""]

IsNull(c) == c.k = "nan"

RowIdx == 1..NRows
ColNames == {"c1", "c2"}
NumCells == {Num(1, 1), Num(2, 1), NaN, PosInf}
ObjCells == {Str("a"), Str("b"), NaN}
Column(dtype, vals) == [dtype |-> dtype, vals |-> vals]
Columns ==
    {Column("float64", v) : v \in [RowIdx -> NumCells]}
        \cup {Column("object", v) : v \in [RowIdx -> ObjCells]}
Datasets == [ColNames -> Columns]

\* missing_threshold as the fraction num/den (0.3 is the default)
Thresholds == {[num |-> 3, den |-> 10], [num |-> 1, den |-> 2], [num |-> 1, den |-> 1]}

\* an optional column list: None, or the given names
None == [given |-> FALSE, cols |-> {}]
Given(S) == [given |-> TRUE, cols |-> S]
ColumnLists == {None} \cup {Given(S) : S \in SUBSET ColNames}

(***************************************************************************)
(* preprocess_data, step 1: columns with too many missing values           *)
(***************************************************************************)
NullCount(col) == Cardinality({i \in DOMAIN col.vals : IsNull(col.vals[i])})

\* missing_fraction > missing_threshold, for a column of at least one row
ExceedsThreshold(col, thr) ==
    NullCount(col) * thr.den > thr.num * Len(col.vals)

ColsToDropNoTargetGuard(d, target, thr) ==
    {c \in DOMAIN d : ExceedsThreshold(d[c], thr)}

ColsToDrop(d, target, thr) ==
    {c \in DOMAIN d : ExceedsThreshold(d[c], thr)} \ {target}

DropColumns(d, drop) == [c \in (DOMAIN d) \ drop |-> d[c]]

(***************************************************************************)
(* step 2: fill missing values with the mode or the median                 *)
(***************************************************************************)
\* the strings of the model in the order Python compares them
StrOrder == <<"1.0", "1.5", "2.0", "Unknown", "a", "b", "inf", "nan">>
StrRank(s) == CHOOSE i \in DOMAIN StrOrder : StrOrder[i] = s

IsObject(col) == col.dtype \in {"object", "category"}
IsNumber(col) == col.dtype \in {"float64", "int64"}

Occurrences(vals, c) == Cardinality({i \in DOMAIN vals : vals[i] = c})
NonNull(vals) == {vals[i] : i \in {j \in DOMAIN vals : ~IsNull(vals[j])}}

\* Series.mode()[0]: the most frequent value, the smallest of them on a tie
Mode(vals) ==
    LET top == {c \in NonNull(vals) :
                   \A e \in NonNull(vals) : Occurrences(vals, e) <= Occurrences(vals, c)}
    IN CHOOSE c \in top : \A e \in top : StrRank(c.s) <= StrRank(e.s)

\* the order of the values a column holds before the fill: integers and +inf
SortKey(c) == IF c.k = "inf" THEN 1000000 ELSE c.n

\* the k-th smallest of the non-null values
KthSmallest(vals, k) ==
    LET idx == {i \in DOMAIN vals : ~IsNull(vals[i])}
        below(c) == Cardinality({i \in idx : SortKey(vals[i]) < SortKey(c)})
        upto(c) == Cardinality({i \in idx : SortKey(vals[i]) <= SortKey(c)})
    IN CHOOSE c \in NonNull(vals) : below(c) < k /\ k <= upto(c)

Half(n) == IF n % 2 = 0 THEN Num(n \div 2, 1) ELSE Num(n, 2)

\* Series.median(): skips the missing values; NaN when nothing is left
Median(vals) ==
    LET m == Cardinality({i \in DOMAIN vals : ~IsNull(vals[i])})
    IN IF m = 0 THEN NaN
       ELSE IF m % 2 = 1 THEN KthSmallest(vals, (m + 1) \div 2)
       ELSE LET a == KthSmallest(vals, m \div 2)
                b == KthSmallest(vals, (m \div 2) + 1)
            IN IF a.k = "inf" \/ b.k = "inf" THEN PosInf ELSE Half(a.n + b.n)

FillNa(vals, fill) == [i \in DOMAIN vals |-> IF IsNull(vals[i]) THEN fill ELSE vals[i]]

FillColumn(col) ==
    IF IsObject(col)
    THEN Column(col.dtype,
                FillNa(col.vals, IF NonNull(col.vals) # {} THEN Mode(col.vals) ELSE Str("Unknown")))
    ELSE Column(col.dtype, FillNa(col.vals, Median(col.vals)))

FillMissing(d) == [c \in DOMAIN d |-> FillColumn(d[c])]

(***************************************************************************)
(* step 3: label-encode the categorical columns                            *)
(***************************************************************************)
\* Series.astype(str) of one cell
AsStr(c) ==
    CASE c.k = "str" -> c.s
      [] c.k = "nan" -> "nan"
      [] c.k = "inf" -> "inf"
      [] c.k = "num" /\ c.d = 2 -> "1.5"
      [] c.k = "num" /\ c.d = 1 /\ c.n = 1 -> "1.0"
      [] OTHER -> "2.0"

Classes(vals) == {AsStr(vals[i]) : i \in DOMAIN vals}

\* LabelEncoder.fit_transform: the index of the value among the sorted classes
LabelEncode(col) ==
    LET cls == Classes(col.vals)
        code(s) == Cardinality({t \in cls : StrRank(t) < StrRank(s)})
    IN Column("int64", [i \in DOMAIN col.vals |-> Num(code(AsStr(col.vals[i])), 1)])

AutoCategorical(d) == {c \in DOMAIN d : IsObject(d[c])}

CategoricalColumns(d, cats) == IF cats.given THEN cats.cols ELSE AutoCategorical(d)

\* the columns the loop of lines 108-112 encodes
EncodedColumns(d, target, cats) ==
    {c \in CategoricalColumns(d, cats) : c \in DOMAIN d /\ c # target}

EncodeCategorical(d, enc) ==
    [c \in DOMAIN d |-> IF c \in enc THEN LabelEncode(d[c]) ELSE d[c]]

(***************************************************************************)
(* step 4: scale the numerical columns                                     *)
(***************************************************************************)
AutoNumerical(d) == {c \in DOMAIN d : IsNumber(d[c])}

\* lines 115-118: the target is removed from the auto-detected list only
NumericalColumns(d, target, nums) ==
    IF nums.given THEN nums.cols ELSE AutoNumerical(d) \ {target}

\* .replace([np.inf, -np.inf], np.nan).fillna(0)
ReplaceInf(vals) ==
    [i \in DOMAIN vals |-> IF vals[i].k \in {"inf", "nan"} THEN Num(0, 1) ELSE vals[i]]

RECURSIVE SumOver(_, _)
SumOver(f, S) ==
    IF S = {} THEN 0
    ELSE LET i == CHOOSE j \in S : TRUE IN f[i] + SumOver(f, S \ {i})

\* StandardScaler.fit_transform of one column: (x - mean) / std, std = 1 when 0.
\* With X = 2x (an integer), z = (N*X - S) / sqrt(N*Q - S*S).
Standardize(vals) ==
    LET X == [i \in DOMAIN vals |->
                 IF vals[i].k = "num" THEN vals[i].n * (2 \div vals[i].d) ELSE 0]
        N == Len(vals)
        S == SumOver(X, DOMAIN vals)
        Q == SumOver([i \in DOMAIN vals |-> X[i] * X[i]], DOMAIN vals)
        V == N * Q - S * S
    IN [i \in DOMAIN vals |->
           IF vals[i].k \notin {"num", "nan", "inf"} THEN vals[i]
           ELSE IF V = 0 THEN Zscore(0, 1) ELSE Zscore(N * X[i] - S, V)]

HasString(vals) == \E i \in DOMAIN vals : vals[i].k = "str"

ScaleColumns(d, sc) ==
    [c \in DOMAIN d |->
        IF c \in sc THEN Column("float64", Standardize(ReplaceInf(d[c].vals))) ELSE d[c]]

(***************************************************************************)
(* preprocess_data                                                         *)
(***************************************************************************)
EmptyFs == [dirs |-> {<<>>}, files |-> <<>>]
NoSaves == <<>>
NoStudy == [trials |-> <<>>, best |-> 0]

NoTable == [c \in {} |-> Column("object", <<>>)]
Raised(e) == [status |-> e, table |-> NoTable, encoders |-> NoTable, scaled |-> {}]
NoPreCall == [target |-> "", thr |-> [num |-> 0, den |-> 1], cats |-> None, nums |-> None]

preprocess_data(d, target, cats, nums, thr) ==
    LET pruned == DropColumns(d, ColsToDrop(d, target, thr))
        filled == FillMissing(pruned)
        enc == EncodedColumns(filled, target, cats)
        encoded == EncodeCategorical(filled, enc)
        sc == NumericalColumns(encoded, target, nums)
    IN IF sc = {}
       THEN [status |-> "ok", table |-> encoded,
             encoders |-> [c \in enc |-> Classes(filled[c].vals)], scaled |-> {}]
       ELSE IF ~(sc \subseteq DOMAIN encoded) THEN Raised("KeyError")
       ELSE IF \E c \in sc : HasString(encoded[c].vals) THEN Raised("ValueError")
       ELSE [status |-> "ok", table |-> ScaleColumns(encoded, sc),
             encoders |-> [c \in enc |-> Classes(filled[c].vals)], scaled |-> sc]

InitPre ==
    /\ df \in Datasets
    /\ pcall = NoPreCall
    /\ pret = Raised("none")
    /\ call = [op |-> "none"]
    /\ ret = [status |-> "none"]
    /\ fs = EmptyFs
    /\ saved = NoSaves
    /\ study = NoStudy

PreprocessData ==
    /\ pret.status = "none"
    /\ \E target \in DOMAIN df, thr \in Thresholds,
          cats \in ColumnLists, nums \in ColumnLists :
           /\ pcall' = [target |-> target, thr |-> thr, cats |-> cats, nums |-> nums]
           /\ pret' = preprocess_data(df, target, cats, nums, thr)
           /\ UNCHANGED <<df, call, ret, fs, saved, study>>

NextPre == PreprocessData

SpecPre == InitPre /\ [][NextPre]_vars

(***************************************************************************)
(* The service's catalog and tables (MLService.__init__)                   *)
(***************************************************************************)
ProblemTypes == {"classification", "regression"}

ModelsWithoutRegressionSvm(pt) ==
    CASE pt = "classification" ->
            {"random_forest", "xgboost", "lightgbm", "catboost", "logistic_regression",
             "svm", "knn", "decision_tree", "gradient_boosting", "ada_boost"}
      [] pt = "regression" ->
            {"random_forest", "xgboost", "lightgbm", "catboost", "linear_regression",
             "ridge", "lasso", "elastic_net", "knn", "decision_tree",
             "gradient_boosting"}
      [] OTHER -> {}

\* self.models: the identifiers registered for each problem type
models(pt) ==
    CASE pt = "classification" ->
            {"random_forest", "xgboost", "lightgbm", "catboost", "logistic_regression",
             "svm", "knn", "decision_tree", "gradient_boosting", "ada_boost"}
      [] pt = "regression" ->
            {"random_forest", "xgboost", "lightgbm", "catboost", "linear_regression",
             "ridge", "lasso", "elastic_net", "svm", "knn", "decision_tree",
             "gradient_boosting"}
      [] OTHER -> {}

\* self.default_params; a floating value is written in tenths (alpha 1.0 is 10)
default_params ==
    [random_forest |-> [n_estimators |-> 100, random_state |-> 42],
     xgboost |-> [n_estimators |-> 100, random_state |-> 42],
     lightgbm |-> [n_estimators |-> 100, random_state |-> 42],
     catboost |-> [iterations |-> 100, random_state |-> 42],
     logistic_regression |-> [random_state |-> 42],
     svm |-> [random_state |-> 42],
     knn |-> [n_neighbors |-> 5],
     decision_tree |-> [random_state |-> 42],
     gradient_boosting |-> [n_estimators |-> 100, random_state |-> 42],
     ada_boost |-> [n_estimators |-> 100, random_state |-> 42],
     linear_regression |-> <<>>,
     ridge |-> [alpha |-> 10],
     lasso |-> [alpha |-> 10],
     elastic_net |-> [alpha |-> 10, l1_ratio |-> 5]]

\* self.default_params.get(model_name, {})
DefaultParamsGet(id) == IF id \in DOMAIN default_params THEN default_params[id] ELSE <<>>

(***************************************************************************)
(* A data frame as the service reads it: its length, the number of columns *)
(* other than "y", and column "y" (when present) run-length encoded.       *)
(***************************************************************************)
MaxDistinct == 12
LenSamples == {0, 1, 11, 999, 1000, 9999, 10000}
OtherColumnSamples == {0, 1, 50, 51}
Dtypes == {"object", "category", "int64", "float64"}

Run(v, n) == [val |-> v, cnt |-> n]

\* a column of `len` rows holding the values 1..k and, when nan, one missing entry
RunColumn(dtype, len, k, nan) ==
    [dtype |-> dtype,
     runs |-> [i \in 1..k |-> Run(Num(i, 1), IF i = 1 THEN len - (k - 1) - (IF nan THEN 1 ELSE 0) ELSE 1)]
                \o (IF nan THEN <<Run(NaN, 1)>> ELSE <<>>)]

FramesWithY ==
    {[len |-> t[1], others |-> t[2], has_y |-> TRUE, y |-> RunColumn(t[3], t[1], t[4], t[5])] :
        t \in {u \in LenSamples \X OtherColumnSamples \X Dtypes
                        \X (0..MaxDistinct) \X BOOLEAN :
                  /\ u[4] + (IF u[5] THEN 1 ELSE 0) <= u[1]
                  /\ (u[1] > 0) => u[4] >= 1}}

FramesWithoutY ==
    {[len |-> len, others |-> m, has_y |-> FALSE, y |-> RunColumn("object", 0, 0, FALSE)] :
        len \in LenSamples, m \in OtherColumnSamples}

Frames == FramesWithY \cup FramesWithoutY

FrameColumns(f) == IF f.has_y THEN {"y"} ELSE {}
NumColumns(f) == f.others + (IF f.has_y THEN 1 ELSE 0)

\* Series.unique(): the distinct entries, a missing entry being one of them
Unique(col) == {col.runs[i].val : i \in DOMAIN col.runs}

(***************************************************************************)
(* detect_problem_type                                                     *)
(***************************************************************************)
ClassLimit == 10

DetectOnColumnStrict(col) ==
    IF col.dtype \in {"object", "category"} THEN "classification"
    ELSE IF Cardinality(Unique(col)) < ClassLimit THEN "classification"
    ELSE "regression"

DetectOnColumn(col) ==
    IF col.dtype \in {"object", "category"} THEN "classification"
    ELSE IF Cardinality(Unique(col)) <= ClassLimit THEN "classification"
    ELSE "regression"

Ok(v) == [status |-> "ok", value |-> v]
Raise(e) == [status |-> e]

detect_problem_type(target_column, f) ==
    IF target_column \notin FrameColumns(f) THEN Raise("KeyError")
    ELSE Ok(DetectOnColumn(f.y))

(***************************************************************************)
(* suggest_models                                                          *)
(***************************************************************************)
suggestions ==
    [classification |->
        [small_dataset |-> <<"logistic_regression", "decision_tree", "knn">>,
         medium_dataset |-> <<"random_forest", "xgboost", "lightgbm", "svm">>,
         large_dataset |-> <<"xgboost", "lightgbm", "catboost", "gradient_boosting">>,
         high_dimensions |-> <<"logistic_regression", "svm", "random_forest">>,
         low_dimensions |-> <<"knn", "decision_tree", "ada_boost">>],
     regression |->
        [small_dataset |-> <<"linear_regression", "ridge", "lasso">>,
         medium_dataset |-> <<"random_forest", "xgboost", "lightgbm">>,
         large_dataset |-> <<"xgboost", "lightgbm", "catboost">>,
         high_dimensions |-> <<"ridge", "lasso", "elastic_net">>,
         low_dimensions |-> <<"linear_regression", "svm", "knn">>]]

SmallLimit == 1000
MediumLimit == 10000
HighDimLimit == 50

SizeCategoryInclusive(dataset_size) ==
    IF dataset_size <= SmallLimit THEN "small_dataset"
    ELSE IF dataset_size <= MediumLimit THEN "medium_dataset"
    ELSE "large_dataset"

SizeCategory(dataset_size) ==
    IF dataset_size < SmallLimit THEN "small_dataset"
    ELSE IF dataset_size < MediumLimit THEN "medium_dataset"
    ELSE "large_dataset"

DimCategory(feature_count) ==
    IF feature_count > HighDimLimit THEN "high_dimensions" ELSE "low_dimensions"

Range(q) == {q[i] : i \in DOMAIN q}

\* list(set(xs)): the distinct elements, in an order Python does not fix; the
\* model keeps the elements and the length of the list
ListOfSet(xs) == [elems |-> Range(xs), len |-> Cardinality(Range(xs))]

suggest_models(problem_type, dataset_size, feature_count) ==
    IF problem_type \notin DOMAIN suggestions THEN Raise("KeyError")
    ELSE LET recommended_models ==
                 suggestions[problem_type][SizeCategory(dataset_size)]
                     \o suggestions[problem_type][DimCategory(feature_count)]
         IN Ok(ListOfSet(recommended_models))

(***************************************************************************)
(* get_intelligent_model_suggestions                                       *)
(***************************************************************************)
\* what self.model_selector.get_intelligent_suggestions does: it returns its
\* own result or raises
AdvisoryOutcomes == {"returns", "raises"}

AdvisoryResult ==
    [recommended_models |-> ListOfSet(<<"xgboost">>),
     analysis |-> [summary |-> "advisory"],
     evaluation |-> <<>>,
     final_recommendation |-> [best_model |-> "xgboost", confidence |-> 9]]

FallbackFeatureCountAll(f) == NumColumns(f)

\* len(df.columns) - 1
FallbackFeatureCount(f) == NumColumns(f) - 1

\* lines 235-241; the confidence 0.5 is written in tenths
Fallback(f, target_column) ==
    LET problem_type == detect_problem_type(target_column, f)
    IN IF problem_type.status # "ok" THEN problem_type
       ELSE Ok([recommended_models |->
                    suggest_models(problem_type.value, f.len, FallbackFeatureCount(f)).value,
                analysis |-> [error |-> "Intelligent selection failed, using fallback"],
                evaluation |-> <<>>,
                final_recommendation |-> [best_model |-> "random_forest", confidence |-> 5]])

get_intelligent_model_suggestions(f, target_column, advisory) ==
    IF advisory = "returns" THEN Ok(AdvisoryResult) ELSE Fallback(f, target_column)

(***************************************************************************)
(* train_model                                                             *)
(***************************************************************************)
ParamNames ==
    {"n_estimators", "random_state", "iterations", "n_neighbors", "alpha", "l1_ratio",
     "max_depth", "min_samples_split", "learning_rate", "bogus"}

\* the keyword arguments, among ParamNames, that the constructor registered for
\* (problem type, identifier) accepts
ConstructorAccepts(pt, id) ==
    CASE id \in {"xgboost", "lightgbm"} -> ParamNames
      [] id = "random_forest" ->
            {"n_estimators", "random_state", "max_depth", "min_samples_split"}
      [] id = "catboost" ->
            {"iterations", "n_estimators", "random_state", "max_depth", "learning_rate"}
      [] id = "logistic_regression" -> {"random_state"}
      [] id = "svm" -> IF pt = "classification" THEN {"random_state"} ELSE {}
      [] id = "knn" -> {"n_neighbors"}
      [] id = "decision_tree" -> {"random_state", "max_depth", "min_samples_split"}
      [] id = "gradient_boosting" ->
            {"n_estimators", "random_state", "max_depth", "min_samples_split",
             "learning_rate"}
      [] id = "ada_boost" -> {"n_estimators", "random_state", "learning_rate"}
      [] id = "linear_regression" -> {}
      [] id \in {"ridge", "lasso"} -> {"alpha", "random_state"}
      [] id = "elastic_net" -> {"alpha", "l1_ratio", "random_state"}
      [] OTHER -> {}

NoHyperparameters == [given |-> FALSE, params |-> <<>>]
Hyperparameters(h) == [given |-> TRUE, params |-> h]

TrainRaise(e, constructed) ==
    [status |-> e, constructed |-> constructed, fitted |-> FALSE]

\* fit_raises: model.fit rejects the training data; elapsed: the seconds measured
train_model(model_name, problem_type, hyperparameters, fit_raises, elapsed) ==
    LET hp == IF hyperparameters.given THEN hyperparameters.params
              ELSE DefaultParamsGet(model_name)
    IN IF problem_type \notin ProblemTypes \/ model_name \notin models(problem_type)
       THEN TrainRaise("KeyError", FALSE)
       ELSE IF ~(DOMAIN hp \subseteq ConstructorAccepts(problem_type, model_name))
       THEN TrainRaise("TypeError", FALSE)
       ELSE IF fit_raises THEN TrainRaise("ValueError", TRUE)
       ELSE [status |-> "ok", constructed |-> TRUE, fitted |-> TRUE,
             value |-> [model |-> [problem_type |-> problem_type, id |-> model_name,
                                   params |-> hp],
                        training_time |-> elapsed]]

(***************************************************************************)
(* get_feature_importance                                                  *)
(***************************************************************************)
MaxFeatures == 2
MaxClasses == 3

\* a weight: a number, or a row of a two-dimensional coef_
Scalar(v) == [k |-> "num", v |-> v, a |-> <<>>]
Row(a) == [k |-> "arr", v |-> 0, a |-> a]

Abs(x) == IF x < 0 THEN -x ELSE x

NoAttrs == [has_fi |-> FALSE, fi |-> <<>>, has_coef |-> FALSE, ndim |-> 1, coef |-> <<>>]

\* models with feature_importances_, with a one-dimensional coef_ (Ridge), with
\* a two-dimensional coef_ of one row per class (LogisticRegression), with both
\* attributes or with neither
FittedModels ==
    {NoAttrs}
    \cup {[NoAttrs EXCEPT !.has_fi = TRUE, !.fi = v] :
             v \in UNION {[1..n -> 0..2] : n \in 1..MaxFeatures}}
    \cup {[NoAttrs EXCEPT !.has_coef = TRUE, !.coef = <<v>>] :
             v \in UNION {[1..n -> {-2, 0, 1}] : n \in 1..MaxFeatures}}
    \cup {[NoAttrs EXCEPT !.has_coef = TRUE, !.ndim = 2, !.coef = m] :
             m \in UNION {[1..r -> [1..n -> {-2, 1}]] :
                             r \in 1..MaxClasses, n \in 1..MaxFeatures}}
    \cup {[NoAttrs EXCEPT !.has_fi = TRUE, !.fi = <<2, 1>>,
                          !.has_coef = TRUE, !.coef = <<<<-1, 2>>>>]}

FeatureNames == <<"f1", "f2", "f3", "f4">>
FeatureLists == {SubSeq(FeatureNames, 1, m) : m \in 0..(MaxFeatures + 1)}

\* model.feature_importances_, else np.abs(model.coef_): the entries zip pairs
\* with the feature names
Importance(model) ==
    IF model.has_fi THEN [i \in DOMAIN model.fi |-> Scalar(model.fi[i])]
    ELSE IF model.ndim = 1
         THEN [i \in DOMAIN model.coef[1] |-> Scalar(Abs(model.coef[1][i]))]
         ELSE [i \in DOMAIN model.coef |->
                  Row([j \in DOMAIN model.coef[i] |-> Abs(model.coef[i][j])])]

Min(a, b) == IF a < b THEN a ELSE b

\* dict(zip(feature_names, importance)), as the sequence of its items
Zip(names, importance) ==
    [i \in 1..Min(Len(names), Len(importance)) |->
        [name |-> names[i], weight |-> importance[i]]]

\* the number a comparison of two weights reads; rows of one element compare
\* like that element
SortValue(w) == IF w.k = "num" THEN w.v ELSE w.a[1]

\* comparing two rows of a length other than one has no truth value
Comparable(items) ==
    \/ Len(items) <= 1
    \/ \A i \in DOMAIN items : items[i].weight.k = "num" \/ Len(items[i].weight.a) = 1

\* sorted(items, key=weight, reverse=True): descending and stable
SortedDescending(items) ==
    LET pos(i) == 1 + Cardinality({j \in DOMAIN items :
                        \/ SortValue(items[j].weight) > SortValue(items[i].weight)
                        \/ /\ SortValue(items[j].weight) = SortValue(items[i].weight)
                           /\ j < i})
    IN [p \in DOMAIN items |-> items[CHOOSE i \in DOMAIN items : pos(i) = p]]

get_feature_importance(model, feature_names) ==
    IF ~model.has_fi /\ ~model.has_coef THEN Ok(<<>>)
    ELSE LET items == Zip(feature_names, Importance(model))
         IN IF Comparable(items) THEN Ok(SortedDescending(items)) ELSE Raise("ValueError")

(***************************************************************************)
(* evaluate_model                                                          *)
(***************************************************************************)
MaxTest == 2

\* a fitted classifier: the labels 1..n_classes it predicts over and whether
\* it has predict_proba
Classifiers == [n_classes : 2..MaxClasses, has_proba : BOOLEAN]
LabelSeqs(n_classes, len) == [1..len -> 1..n_classes]

\* np.unique(y)
UniqueLabels(y) == {y[i] : i \in DOMAIN y}

\* confusion_matrix(y_test, y_pred): counts per (true, predicted) label, over
\* the labels that occur in either
ConfusionMatrix(y_test, y_pred) ==
    LET labels == UniqueLabels(y_test) \cup UniqueLabels(y_pred)
    IN [t \in labels |-> [q \in labels |->
           Cardinality({i \in DOMAIN y_test : y_test[i] = t /\ y_pred[i] = q})]]

\* line 289: y_pred_proba is not None and len(np.unique(y_test)) == 2
ComputesAuc(model, y_test) ==
    model.has_proba /\ Cardinality(UniqueLabels(y_test)) = 2

\* y_pred is what model.predict(X_test) returned; the metrics are kept by name,
\* the accuracy as correct/total and the confusion matrix by value
evaluate_model(model, y_test, y_pred, problem_type) ==
    IF problem_type = "classification"
    THEN Ok([keys |-> {"accuracy", "precision", "recall", "f1_score", "confusion_matrix"}
                         \cup (IF ComputesAuc(model, y_test) THEN {"roc_auc"} ELSE {}),
             accuracy |-> [correct |-> Cardinality({i \in DOMAIN y_test : y_test[i] = y_pred[i]}),
                           total |-> Len(y_test)],
             confusion_matrix |-> ConfusionMatrix(y_test, y_pred)])
    ELSE Ok([keys |-> {"mse", "mae", "r2_score"}])

(***************************************************************************)
(* The service: one call on a constructed MLService                        *)
(***************************************************************************)
TargetNames == {"y", "ghost"}
SizeSamples == {0, 500, 999, 1000, 1001, 9999, 10000, 10001}
FeatureSamples == {0, 20, 50, 51}
ModelIds == UNION {models(pt) : pt \in ProblemTypes} \cup {"bogus_model"}
HyperparameterSamples ==
    {NoHyperparameters, Hyperparameters(<<>>), Hyperparameters([n_estimators |-> 10]),
     Hyperparameters([bogus |-> 1])}

BlankDataset == [c \in ColNames |-> Column("object", [i \in RowIdx |-> NaN])]

Init ==
    /\ df = BlankDataset
    /\ pcall = NoPreCall
    /\ pret = Raised("none")
    /\ call = [op |-> "none"]
    /\ ret = [status |-> "none"]
    /\ fs = EmptyFs
    /\ saved = NoSaves
    /\ study = NoStudy

Idle == call.op = "none"

DetectProblemType ==
    /\ Idle
    /\ \E f \in Frames, target_column \in TargetNames :
          /\ call' = [op |-> "detect_problem_type", target_column |-> target_column,
                      frame |-> f]
          /\ ret' = detect_problem_type(target_column, f)
    /\ UNCHANGED <<preVars, storeVars, study>>

SuggestModels ==
    /\ Idle
    /\ \E pt \in ProblemTypes \cup {"clustering"}, n \in SizeSamples, m \in FeatureSamples :
          /\ call' = [op |-> "suggest_models", problem_type |-> pt,
                      dataset_size |-> n, feature_count |-> m]
          /\ ret' = suggest_models(pt, n, m)
    /\ UNCHANGED <<preVars, storeVars, study>>

GetIntelligentModelSuggestions ==
    /\ Idle
    /\ \E f \in Frames, target_column \in TargetNames, advisory \in AdvisoryOutcomes :
          /\ call' = [op |-> "get_intelligent_model_suggestions",
                      target_column |-> target_column, frame |-> f,
                      advisory |-> advisory]
          /\ ret' = get_intelligent_model_suggestions(f, target_column, advisory)
    /\ UNCHANGED <<preVars, storeVars, study>>

TrainModel ==
    /\ Idle
    /\ \E id \in ModelIds, pt \in ProblemTypes \cup {"clustering"},
          h \in HyperparameterSamples,
          fit_raises \in BOOLEAN, elapsed \in 0..1 :
          /\ call' = [op |-> "train_model", model_name |-> id, problem_type |-> pt,
                      hyperparameters |-> h, fit_raises |-> fit_raises]
          /\ ret' = train_model(id, pt, h, fit_raises, elapsed)
    /\ UNCHANGED <<preVars, storeVars, study>>

GetFeatureImportance ==
    /\ Idle
    /\ \E model \in FittedModels, feature_names \in FeatureLists :
          /\ call' = [op |-> "get_feature_importance", model |-> model,
                      feature_names |-> feature_names]
          /\ ret' = get_feature_importance(model, feature_names)
    /\ UNCHANGED <<preVars, storeVars, study>>

EvaluateModel ==
    /\ Idle
    /\ \E model \in Classifiers, len \in 1..MaxTest, pt \in ProblemTypes :
          \E y_test \in LabelSeqs(model.n_classes, len),
             y_pred \in LabelSeqs(model.n_classes, len) :
             /\ call' = [op |-> "evaluate_model", model |-> model, y_test |-> y_test,
                         y_pred |-> y_pred, problem_type |-> pt]
             /\ ret' = evaluate_model(model, y_test, y_pred, pt)
    /\ UNCHANGED <<preVars, storeVars, study>>

Next ==
    \/ DetectProblemType
    \/ SuggestModels
    \/ GetIntelligentModelSuggestions
    \/ TrainModel
    \/ GetFeatureImportance
    \/ EvaluateModel

Spec == Init /\ [][Next]_vars

(***************************************************************************)
(* save_model and load_model                                               *)
(***************************************************************************)
\* a path is the sequence of its components; <<>> is the working directory
PathSamples == {<<"m">>, <<"d", "m">>, <<"d", "m", "n">>, <<"d", "e", "m">>}

\* a fitted model: predict(x) = coef * x + intercept
StoredModels == [coef : 0..1, intercept : 0..1]
Predict(model, x) == model.coef * x + model.intercept
FixedInput == 1..2
Predictions(model) == [x \in FixedInput |-> Predict(model, x)]

\* joblib.dump writes the attributes of the object, joblib.load reads them back
Dump(model) == <<"pickle", model.coef, model.intercept>>
Load(bytes) == [coef |-> bytes[2], intercept |-> bytes[3]]

\* os.path.dirname
Dirname(path) == SubSeq(path, 1, Len(path) - 1)
Prefixes(path) == {SubSeq(path, 1, n) : n \in 0..Len(path)}

IsFile(f, path) == path \in DOMAIN f.files
IsDir(f, path) == path \in f.dirs

\* os.makedirs(dir, exist_ok=True) followed by joblib.dump(model, filepath)
save_model(f, model, filepath) ==
    LET dir == Dirname(filepath)
    IN IF dir = <<>> THEN [status |-> "FileNotFoundError", fs |-> f]
       ELSE IF \E q \in Prefixes(dir) : IsFile(f, q)
       THEN [status |-> "FileExistsError", fs |-> f]
       ELSE LET made == [f EXCEPT !.dirs = f.dirs \cup Prefixes(dir)]
            IN IF IsDir(made, filepath) THEN [status |-> "IsADirectoryError", fs |-> made]
               ELSE [status |-> "ok",
                     fs |-> [made EXCEPT !.files =
                                [q \in DOMAIN made.files \cup {filepath} |->
                                    IF q = filepath THEN Dump(model) ELSE made.files[q]]]]

load_model(f, filepath) ==
    IF IsFile(f, filepath) THEN Ok(Load(f.files[filepath]))
    ELSE IF IsDir(f, filepath) THEN Raise("IsADirectoryError")
    ELSE Raise("FileNotFoundError")

SaveModel ==
    /\ \E model \in StoredModels, filepath \in PathSamples :
          LET r == save_model(fs, model, filepath)
          IN /\ call' = [op |-> "save_model", model |-> model, filepath |-> filepath]
             /\ ret' = [status |-> r.status]
             /\ fs' = r.fs
             /\ saved' = IF r.status = "ok"
                         THEN [q \in DOMAIN saved \cup {filepath} |->
                                  IF q = filepath THEN model ELSE saved[q]]
                         ELSE saved
    /\ UNCHANGED <<preVars, study>>

LoadModel ==
    /\ \E filepath \in PathSamples :
          /\ call' = [op |-> "load_model", filepath |-> filepath]
          /\ ret' = load_model(fs, filepath)
    /\ UNCHANGED <<preVars, storeVars, study>>

NextStore == SaveModel \/ LoadModel

SpecStore == Init /\ [][NextStore]_vars

(***************************************************************************)
(* optimize_hyperparameters                                                *)
(***************************************************************************)
MaxTrials == 3

\* the bounds of trial.suggest_int / trial.suggest_float; learning_rate is
\* written in hundredths
SearchSpace(model_name) ==
    CASE model_name = "random_forest" ->
            [n_estimators |-> <<50, 300>>, max_depth |-> <<3, 20>>,
             min_samples_split |-> <<2, 10>>]
      [] model_name \in {"xgboost", "lightgbm"} ->
            [n_estimators |-> <<50, 300>>, max_depth |-> <<3, 10>>,
             learning_rate |-> <<1, 30>>]
      [] OTHER -> <<>>

HasSearchSpace(model_name) == model_name \in {"random_forest", "xgboost", "lightgbm"}

\* the points a trial may sample: each parameter at either end of its range
SamplePoints(model_name) ==
    LET space == SearchSpace(model_name)
        ends == UNION {{space[k][1], space[k][2]} : k \in DOMAIN space}
    IN {p \in [DOMAIN space -> ends] :
           \A k \in DOMAIN space : p[k] \in {space[k][1], space[k][2]}}

\* the mean of cross_val_score, in tenths
ScoreSamples == {3, 7}

BetterOrEqual(trials, best, value) == best = 0 \/ value >= trials[best].value

\* the study keeps the best trial: a later trial replaces it only with a
\* strictly greater value
Better(trials, best, value) == best = 0 \/ value > trials[best].value

\* built: the objective constructed a model and cross-validated it
Record(st, params, value, built) ==
    [trials |-> Append(st.trials, [params |-> params, value |-> value, built |-> built]),
     best |-> IF Better(st.trials, st.best, value) THEN Len(st.trials) + 1 ELSE st.best]

Optimizing == call.op = "optimize_hyperparameters" /\ ret.status = "running"

OptimizeStart ==
    /\ Idle
    /\ \E model_name \in {"random_forest", "xgboost", "lightgbm", "ridge"},
          pt \in ProblemTypes \cup {"clustering"}, n_trials \in 0..MaxTrials :
          call' = [op |-> "optimize_hyperparameters", model_name |-> model_name,
                   problem_type |-> pt, n_trials |-> n_trials]
    /\ ret' = [status |-> "running"]
    /\ study' = NoStudy
    /\ UNCHANGED <<preVars, storeVars>>

\* one call of objective(trial) on a model with a search space
Trial ==
    /\ Optimizing
    /\ Len(study.trials) < call.n_trials
    /\ HasSearchSpace(call.model_name)
    /\ \E params \in SamplePoints(call.model_name) :
          IF call.model_name \notin models(call.problem_type)
          THEN ret' = Raise("KeyError") /\ UNCHANGED study
          ELSE \/ \E value \in ScoreSamples :
                     study' = Record(study, params, value, TRUE) /\ UNCHANGED ret
               \/ ret' = Raise("ValueError") /\ UNCHANGED study
    /\ UNCHANGED <<preVars, storeVars, call>>

\* one call of objective(trial) on a model without one: return 0.0
TrialNoSpace ==
    /\ Optimizing
    /\ Len(study.trials) < call.n_trials
    /\ ~HasSearchSpace(call.model_name)
    /\ study' = Record(study, <<>>, 0, FALSE)
    /\ UNCHANGED <<preVars, storeVars, call, ret>>

\* return study.best_params
OptimizeReturn ==
    /\ Optimizing
    /\ Len(study.trials) = call.n_trials
    /\ ret' = IF study.best = 0 THEN Raise("ValueError")
              ELSE Ok(study.trials[study.best].params)
    /\ UNCHANGED <<preVars, storeVars, call, study>>

NextOpt == OptimizeStart \/ Trial \/ TrialNoSpace \/ OptimizeReturn

SpecOpt == Init /\ [][NextOpt]_vars

(***************************************************************************)
(* Claims about preprocess_data                                            *)
(***************************************************************************)
Returned == pret.status = "ok"

\* the fraction of missing entries of input column c exceeds the call's threshold
TooManyMissing(c) ==
    Cardinality({i \in RowIdx : df[c].vals[i] = NaN}) * pcall.thr.den
        > pcall.thr.num * NRows

\* C1: the target column is a column of the returned table whatever its
\* missingness, and every other column whose missing fraction exceeds
\* missing_threshold is absent from the returned table.
C1_TargetNeverPruned ==
    Returned =>
        /\ pcall.target \in DOMAIN pret.table
        /\ \A c \in ColNames \ {pcall.target} :
              TooManyMissing(c) => c \notin DOMAIN pret.table

\* a call that returned a table for a target with every value missing while the
\* other column was pruned
C1_Witness ==
    /\ Returned
    /\ \A i \in RowIdx : df[pcall.target].vals[i] = NaN
    /\ pcall.target \in DOMAIN pret.table
    /\ \E c \in ColNames \ {pcall.target} :
          TooManyMissing(c) /\ c \notin DOMAIN pret.table

\* the value of a cell is a non-negative integer (a label code)
IsIntegerCode(c) ==
    \/ c.k = "num" /\ c.d = 1 /\ c.n >= 0
    \/ c.k = "z" /\ c.n >= 0 /\ \E q \in 0..c.n : q * q * c.d = c.n * c.n

\* the categorical columns of a call: the caller's list, or the columns of
\* object dtype
CallCategorical ==
    IF pcall.cats.given THEN pcall.cats.cols ELSE {c \in ColNames : IsObject(df[c])}

\* C2: after preprocess_data returns, no numeric column of the returned table
\* holds an infinite or missing value and every categorical column other than
\* the target holds only integer-encoded values.
C2_CleanTable ==
    Returned =>
        \A c \in DOMAIN pret.table :
            /\ IsNumber(pret.table[c]) =>
                  \A i \in RowIdx : pret.table[c].vals[i].k \notin {"inf", "nan"}
            /\ (c \in CallCategorical /\ c # pcall.target) =>
                  \A i \in RowIdx : IsIntegerCode(pret.table[c].vals[i])

\* C3: the target is excluded from the encoded and from the scaled columns,
\* also when the caller lists it: its values are returned as they were after
\* the missing-value fill.
C3_TargetUntouched ==
    Returned =>
        /\ pcall.target \notin DOMAIN pret.encoders
        /\ pcall.target \notin pret.scaled
        /\ pret.table[pcall.target] = FillColumn(df[pcall.target])

(***************************************************************************)
(* Claims about detect_problem_type and suggest_models                     *)
(***************************************************************************)
NumericDtypes == {"int64", "float64"}

\* the number of distinct entries of the column, a missing entry counting as one
DistinctValues(col) ==
    Cardinality({v \in {Num(i, 1) : i \in 1..(MaxDistinct + 1)} \cup {NaN} :
                    \E r \in DOMAIN col.runs : col.runs[r].val = v})

DetectCalled ==
    /\ call.op = "detect_problem_type"
    /\ call.frame.has_y
    /\ call.target_column = "y"

C5_SizeBucket(pt, rows) ==
    IF rows < 1000 THEN suggestions[pt].small_dataset
    ELSE IF rows >= 1000 /\ rows < 10000 THEN suggestions[pt].medium_dataset
    ELSE suggestions[pt].large_dataset

C5_DimBucket(pt, features) ==
    IF features > 50 THEN suggestions[pt].high_dimensions
    ELSE suggestions[pt].low_dimensions

\* C5: for both problem types and all row and feature counts suggest_models
\* returns exactly the duplicate-free union of one size-bucket list and one
\* dimensionality-bucket list; the result is a function of the arguments alone.
C5_SuggestUnion ==
    (call.op = "suggest_models" /\ call.problem_type \in ProblemTypes) =>
        /\ ret.status = "ok"
        /\ ret.value.elems =
              Range(C5_SizeBucket(call.problem_type, call.dataset_size))
                  \cup Range(C5_DimBucket(call.problem_type, call.feature_count))
        /\ ret.value.len = Cardinality(ret.value.elems)

\* suggest_models("classification", 500, 20): six listed entries, four distinct
C5_Witness ==
    /\ call.op = "suggest_models"
    /\ call.problem_type = "classification"
    /\ call.dataset_size = 500
    /\ call.feature_count = 20
    /\ ret.status = "ok"
    /\ ret.value.elems = {"logistic_regression", "decision_tree", "knn", "ada_boost"}
    /\ ret.value.len = 4

(***************************************************************************)
(* Claims about get_intelligent_model_suggestions                          *)
(***************************************************************************)
AdvisoryFailed ==
    /\ call.op = "get_intelligent_model_suggestions"
    /\ call.advisory = "raises"

\* the heuristic result: suggest_models on the detected problem type, the row
\* count and the column count minus one, flagged through the analysis field
IsHeuristicFallback ==
    /\ ret.status = "ok"
    /\ "error" \in DOMAIN ret.value.analysis
    /\ \E pt \in ProblemTypes :
          /\ detect_problem_type(call.target_column, call.frame) = Ok(pt)
          /\ ret.value.recommended_models =
                suggest_models(pt, call.frame.len,
                               call.frame.others + (IF call.frame.has_y THEN 1 ELSE 0) - 1).value

C7_UnknownModelError ==
    (call.op = "train_model" /\ call.model_name \notin models(call.problem_type)) =>
        /\ ret.status = "UnknownModelError"
        /\ ~ret.constructed
        /\ ~ret.fitted

\* C8: get_feature_importance never raises; it returns the native importances
\* keyed by feature name, else the absolute coefficients, else an empty mapping;
\* the weights of a non-empty mapping are non-negative numbers in descending
\* order.
C8_ImportanceMapping ==
    call.op = "get_feature_importance" =>
        LET m == call.model
            names == call.feature_names
        IN /\ ret.status = "ok"
           /\ (~m.has_fi /\ ~m.has_coef) => ret.value = <<>>
           /\ \A i \in DOMAIN ret.value :
                 /\ ret.value[i].weight.k = "num"
                 /\ ret.value[i].weight.v >= 0
                 /\ \A j \in DOMAIN ret.value :
                       i < j => ret.value[i].weight.v >= ret.value[j].weight.v
           /\ (m.has_fi \/ (m.has_coef /\ m.ndim = 1)) =>
                 \A i \in DOMAIN ret.value :
                    \E n \in DOMAIN names :
                       /\ names[n] = ret.value[i].name
                       /\ ret.value[i].weight.v =
                             (IF m.has_fi THEN m.fi[n] ELSE Abs(m.coef[1][n]))

(***************************************************************************)
(* Claims about the model artifact store                                   *)
(***************************************************************************)
\* C9: save_model succeeds for every path, a following load_model returns a
\* model whose predictions equal those of the model last saved at the path,
\* and load_model of a path never saved fails with ArtifactNotFoundError.
C9_SaveLoadRoundTrip ==
    /\ call.op = "save_model" => ret.status = "ok"
    /\ (call.op = "load_model" /\ call.filepath \in DOMAIN saved) =>
          /\ ret.status = "ok"
          /\ Predictions(ret.value) = Predictions(saved[call.filepath])
    /\ (call.op = "load_model" /\ call.filepath \notin DOMAIN saved) =>
          ret.status = "ArtifactNotFoundError"

(***************************************************************************)
(* Claims about optimize_hyperparameters                                   *)
(***************************************************************************)
Tuned ==
    /\ call.op = "optimize_hyperparameters"
    /\ call.model_name \in {"random_forest", "xgboost", "lightgbm"}
    /\ call.n_trials >= 1
    /\ ret.status = "ok"

\* the earliest trial whose value is the maximum over all trials
EarliestBest(trials) ==
    CHOOSE i \in DOMAIN trials :
        /\ \A j \in DOMAIN trials : trials[j].value <= trials[i].value
        /\ \A j \in 1..(i - 1) : trials[j].value < trials[i].value

C10_InRange(model_name, p) ==
    /\ p.n_estimators \in 50..300
    /\ model_name = "random_forest" =>
          /\ DOMAIN p = {"n_estimators", "max_depth", "min_samples_split"}
          /\ p.max_depth \in 3..20
          /\ p.min_samples_split \in 2..10
    /\ model_name # "random_forest" =>
          /\ DOMAIN p = {"n_estimators", "max_depth", "learning_rate"}
          /\ p.max_depth \in 3..10
          /\ p.learning_rate \in 1..30

\* C10: with trials >= 1 and a model with a search space, a call that returns
\* has run exactly `trials` evaluations and returns the point sampled in the
\* earliest trial that achieved the maximum objective; every returned value
\* lies inside its declared range.
C10_BestOfTrials ==
    Tuned =>
        /\ Len(study.trials) = call.n_trials
        /\ ret.value = study.trials[EarliestBest(study.trials)].params
        /\ C10_InRange(call.model_name, ret.value)

\* two trials tied at the maximum with different points: the first is returned
C10_Witness ==
    /\ Tuned
    /\ Len(study.trials) >= 2
    /\ study.trials[1].value = study.trials[2].value
    /\ study.trials[1].params # study.trials[2].params
    /\ \A j \in DOMAIN study.trials : study.trials[j].value <= study.trials[1].value
    /\ ret.value = study.trials[1].params

\* a call for an identifier other than random_forest, xgboost and lightgbm
Untunable ==
    /\ call.op = "optimize_hyperparameters"
    /\ call.model_name \notin {"random_forest", "xgboost", "lightgbm"}

\* C11: for an identifier with no search space every trial reports an
\* objective of exactly zero without constructing or fitting a model, and the
\* call does not end like a successful optimisation: it does not return a
\* best-parameter mapping the way a run that tuned parameters does.
C11_UntunableNotSuccessful ==
    Untunable =>
        /\ \A i \in DOMAIN study.trials :
              study.trials[i].value = 0 /\ ~study.trials[i].built
        /\ ret.status # "ok"

(***************************************************************************)
(* Claims about evaluate_model                                             *)
(***************************************************************************)
\* C12: a classification evaluation always includes the confusion matrix and
\* includes an AUC only when the model predicts over exactly two classes and
\* has class-probability output; no AUC is computed for a model of three or
\* more classes, whatever classes appear in y_test.
C12_AucOnlyForBinaryModel ==
    (call.op = "evaluate_model" /\ call.problem_type = "classification") =>
        /\ ret.status = "ok"
        /\ "confusion_matrix" \in ret.value.keys
        /\ "roc_auc" \in ret.value.keys =>
              call.model.n_classes = 2 /\ call.model.has_proba
        /\ call.model.n_classes >= 3 => "roc_auc" \notin ret.value.keys

(***************************************************************************)
(* Claims about the catalog                                                *)
(***************************************************************************)
\* the identifier is a key of the catalog of the problem type and has an entry
\* in the default-hyperparameter table
Registered(pt, id) == id \in models(pt) /\ id \in DOMAIN default_params

\* C13: every identifier the service can recommend is registered for the
\* problem type it is recommended for: every entry of every size and
\* dimensionality bucket, every identifier suggest_models returns, and the
\* best_model of the advisory fallback for either problem type.
C13_RecommendedAreRegistered ==
    /\ \A pt \in ProblemTypes : \A b \in DOMAIN suggestions[pt] :
          \A i \in DOMAIN suggestions[pt][b] : Registered(pt, suggestions[pt][b][i])
    /\ (call.op = "suggest_models" /\ ret.status = "ok") =>
          \A id \in ret.value.elems : Registered(call.problem_type, id)
    /\ (call.op = "get_intelligent_model_suggestions" /\ call.advisory = "raises"
            /\ ret.status = "ok") =>
          /\ \A pt \in ProblemTypes :
                Registered(pt, ret.value.final_recommendation.best_model)
          /\ \A id \in ret.value.recommended_models.elems :
                Registered(detect_problem_type(call.target_column, call.frame).value, id)

\* suggest_models recommended svm for a regression and the catalog has it
C13_Witness ==
    /\ call.op = "suggest_models"
    /\ call.problem_type = "regression"
    /\ ret.status = "ok"
    /\ "svm" \in ret.value.elems
    /\ \A id \in ret.value.elems : Registered("regression", id)

\* C14: for every (problem type, identifier) of the catalog, train_model called
\* without hyperparameters applies the defaults registered for the identifier,
\* every key of which the constructor of the pair accepts, so that the call
\* never fails with a constructor error.
C14_DefaultsConstruct ==
    (call.op = "train_model" /\ call.model_name \in models(call.problem_type)
        /\ ~call.hyperparameters.given) =>
        /\ DOMAIN default_params[call.model_name]
              \subseteq ConstructorAccepts(call.problem_type, call.model_name)
        /\ ret.status # "TypeError"
        /\ ret.status = "ok" => ret.value.model.params = default_params[call.model_name]

====
